---------------------------- MODULE Spec2Model ----------------------------
(***************************************************************************)
(* OptiGen AI image compressor: the target-size search controller          *)
(* (iterativeCompressToTarget), its batch driver (applyAutoToBatch) and    *)
(* the other handlers of App that write the image queue                    *)
(* (triggerAnalysis, manualOptimize, upload, remove, select).              *)
(*                                                                         *)
(* Every handler is an async function; one action of the model is the      *)
(* code a handler runs between two awaits.  A React state setter is        *)
(* applied to the state variable at once; what a handler reads through     *)
(* its closure (imageList, currentImage) is the snapshot it captured when  *)
(* it was started.                                                         *)
(***************************************************************************)
EXTENDS Integers, Sequences, FiniteSets, TLC

VARIABLES
    appState,             \* AppState: "IDLE" | "PROCESSING"
    imageList,            \* ImageFile[] (React state)
    selectedId,           \* id of the selected image, NoId for null
    processingProgress,   \* [num, den]: the fraction num/den (percent)
    batch,                \* the running applyAutoToBatch call, or its rest state
    search,               \* the running iterativeCompressToTarget call
    finished,             \* how the batch left the last item it handled
    pending,              \* triggerAnalysis / manualOptimize calls awaiting
    previewTimer,         \* the live-preview debounce timer, if one is set
    events,               \* number of user events handled so far
    manualQuality,        \* quality, the slider of the manual settings
    svg                   \* the SVG cleaner (src/src/App.jsx), a separate page

vars == <<appState, imageList, selectedId, processingProgress, batch, search,
          finished, pending, previewTimer, events, manualQuality, svg>>

---------------------------------------------------------------------------
(* Bounds of the model *)

\* user events (upload, select, remove, Manual Update, Auto-Compress) in
\* one session; what they start (timers, analyses, compressions, the batch)
\* runs to its end whatever the bound
MaxEvents == 3

\* changes of the input or of an option in one session of the SVG cleaner
MaxSvgChanges == 4

---------------------------------------------------------------------------
(* Program constants *)

LowQ0 == 5
HighQ0 == 90
Stage2Quality == 40
Stage2Iters_nine == 8 + 1
Stage2Iters == 8
\* 50 * 1024
TargetLimit == 51200
\* scales are kept in units of 1/ScaleUnit: 0.05 = 1280, 0.95 = 24320 and
\* all 8 bisection midpoints are whole numbers of units.  For the picture
\* dimensions of this model (900, 500, 100, 50) Round(dim * midS, ScaleUnit)
\* equals Math.round(dim * midS) in IEEE double arithmetic at each of the
\* 255 midpoints the bisection can visit.
ScaleUnit == 25600
LowS0 == 1280
HighS0 == 24320
DefaultQuality == 75

NoId == 0
NoCrop == [none |-> TRUE]
NoResult == [none |-> TRUE]
NoAnalysis == [none |-> TRUE]
EncFail == [failed |-> TRUE]
NoTimer == [none |-> TRUE]
\* the SVG cleaner is not open
NoSvg == [none |-> TRUE]

\* Math.round(n / d) for n >= 0, d > 0
Round(n, d) == (2 * n + d) \div (2 * d)

Max(S) == CHOOSE x \in S : \A y \in S : y <= x

---------------------------------------------------------------------------
(* The Encoder: compressImage.  The browser codec is a black box; the      *)
(* bytes it produces depend on the picture (img.prof), the quality and the *)
(* canvas size.  A picture of kind "lin" encodes to                        *)
(* ceil(w*h/100)*(base + perQ*quality)/100 bytes, a monotonic size        *)
(* function (non-decreasing in quality and in both dimensions); a          *)
(* picture of kind "any" may encode to any size of AnySizes at every call, *)
(* which covers every size function, monotonic or not.                     *)

AnySizes == {51200, 51201}

EncodedSizes(prof, quality, w, h) ==
    IF prof.kind = "any" THEN AnySizes
    ELSE {(((w * h + 99) \div 100) * (prof.base + prof.perQ * quality)) \div 100}

\* sW, sH of compressImage
SourceW(img, crop) == IF crop = NoCrop THEN img.width ELSE Round(crop.width * img.width, 100)
SourceH(img, crop) == IF crop = NoCrop THEN img.height ELSE Round(crop.height * img.height, 100)

\* fW = targetWidth || sW (0 and undefined both fall back to sW)
FinalW(img, tw, crop) == IF tw # 0 THEN tw ELSE SourceW(img, crop)
FinalH(img, th, crop) == IF th # 0 THEN th ELSE SourceH(img, crop)

\* the CompressionResult that compressImage resolves with when the blob has
\* `size` bytes (reduction is 0 here and is overwritten by the callers)
compressImage(img, quality, tw, th, crop, size) ==
    [size |-> size, quality |-> quality,
     width |-> FinalW(img, tw, crop), height |-> FinalH(img, th, crop)]

\* every outcome of one compressImage call: a result, or EncFail when the
\* promise rejects (image load failed, no canvas context, toBlob gave null)
EncoderOutcomes(img, quality, tw, th, crop) ==
    {compressImage(img, quality, tw, th, crop, sz) :
        sz \in EncodedSizes(img.prof, quality, FinalW(img, tw, crop), FinalH(img, th, crop))}
    \cup {EncFail}

---------------------------------------------------------------------------
(* iterativeCompressToTarget                                               *)
(* A frame f is the state of one call: its arguments, its locals and the   *)
(* place it awaits at (stage).  log is the list of Encoder calls that have *)
(* completed, in order.                                                    *)

MidQ(f) == (f.lowQ + f.highQ) \div 2
MidS(f) == (f.lowS + f.highS) \div 2

Crop(analysis) == analysis.smartCropSuggestion

\* the arguments of the compressImage call the frame is awaiting
AwaitedCall(f) ==
    IF f.stage = "stage1"
    THEN [quality |-> MidQ(f), tw |-> 0, th |-> 0, scale |-> ScaleUnit]
    ELSE [quality |-> Stage2Quality,
          tw |-> Round(f.img.width * MidS(f), ScaleUnit),
          th |-> Round(f.img.height * MidS(f), ScaleUnit),
          scale |-> MidS(f)]

SearchOutcomes(f) ==
    LET c == AwaitedCall(f)
    IN  EncoderOutcomes(f.img, c.quality, c.tw, c.th, Crop(f.analysis))

SearchStart(img, analysis, target) ==
    [img |-> img, analysis |-> analysis, target |-> target,
     stage |-> "stage1",
     lowQ |-> LowQ0, highQ |-> HighQ0,
     lowS |-> LowS0, highS |-> HighS0, iter |-> 0,
     bestRes |-> NoResult, log |-> <<>>]

Logged(f, res) ==
    LET c == AwaitedCall(f)
    IN  Append(f.log, [stage |-> f.stage, quality |-> c.quality,
                       scale |-> c.scale, res |-> res])

\* Stage 1 that keeps the last attempt as best whether or not it fits
Stage1Update_keepsOversize(f, res) ==
    IF res.size <= f.target
    THEN [f EXCEPT !.bestRes = res, !.lowQ = MidQ(f) + 1]
    ELSE [f EXCEPT !.bestRes = res, !.highQ = MidQ(f) - 1]

\* Stage 1 with the two branches of the bisection exchanged
Stage1Update_searchesDown(f, res) ==
    IF res.size <= f.target
    THEN [f EXCEPT !.bestRes = res, !.highQ = MidQ(f) - 1]
    ELSE [f EXCEPT !.lowQ = MidQ(f) + 1]

\* Stage 1 that forgets its best attempt when a later attempt is too large
Stage1Update_clearsOnMiss(f, res) ==
    IF res.size <= f.target
    THEN [f EXCEPT !.bestRes = res, !.lowQ = MidQ(f) + 1]
    ELSE [f EXCEPT !.bestRes = NoResult, !.highQ = MidQ(f) - 1]

\* body of the Stage 1 loop after the await
Stage1Update(f, res) ==
    IF res.size <= f.target
    THEN [f EXCEPT !.bestRes = res, !.lowQ = MidQ(f) + 1]
    ELSE [f EXCEPT !.highQ = MidQ(f) - 1]

\* Stage 2 that runs after every Stage 1
NeedsStage2_always(f) == TRUE

\* the test that guards Stage 2
NeedsStage2(f) == f.bestRes = NoResult \/ f.bestRes.size > f.target

\* Stage 2 with the two branches of the bisection exchanged
Stage2Update_searchesDown(f, res) ==
    IF res.size <= f.target
    THEN [f EXCEPT !.bestRes = res, !.highS = MidS(f), !.iter = @ + 1]
    ELSE [f EXCEPT !.lowS = MidS(f), !.iter = @ + 1]

\* Stage 2 that falls back to the last attempt when none fits
Stage2Update_bestEffort(f, res) ==
    IF res.size <= f.target
    THEN [f EXCEPT !.bestRes = res, !.lowS = MidS(f), !.iter = @ + 1]
    ELSE [f EXCEPT !.bestRes = IF @ = NoResult \/ @.size > f.target THEN res ELSE @,
                   !.highS = MidS(f), !.iter = @ + 1]

\* body of the Stage 2 loop after the await
Stage2Update(f, res) ==
    IF res.size <= f.target
    THEN [f EXCEPT !.bestRes = res, !.lowS = MidS(f), !.iter = @ + 1]
    ELSE [f EXCEPT !.highS = MidS(f), !.iter = @ + 1]

\* a search that catches the rejection of a call and goes on bisecting as
\* if the attempt had been too large
SearchResume_swallowsFailure(f, res) ==
    LET lg == Logged(f, res)
        r == IF res = EncFail
             THEN [size |-> f.target + 1, quality |-> 0, width |-> 0, height |-> 0]
             ELSE res
    IN  IF f.stage = "stage1"
        THEN LET g == [Stage1Update(f, r) EXCEPT !.log = lg]
             IN  IF g.lowQ <= g.highQ THEN g
                 ELSE IF NeedsStage2(g) THEN [g EXCEPT !.stage = "stage2"]
                 ELSE [g EXCEPT !.stage = "returned"]
        ELSE LET g == [Stage2Update(f, r) EXCEPT !.log = lg]
             IN  IF g.iter < Stage2Iters THEN g
                 ELSE [g EXCEPT !.stage = "returned"]

\* the frame after the awaited call has completed with outcome res, run
\* up to the next await, the return or the throw
SearchResume(f, res) ==
    LET lg == Logged(f, res)
    IN  IF res = EncFail THEN [f EXCEPT !.stage = "thrown", !.log = lg]
        ELSE IF f.stage = "stage1"
        THEN LET g == [Stage1Update(f, res) EXCEPT !.log = lg]
             IN  IF g.lowQ <= g.highQ THEN g
                 ELSE IF NeedsStage2(g) THEN [g EXCEPT !.stage = "stage2"]
                 ELSE [g EXCEPT !.stage = "returned"]
        ELSE LET g == [Stage2Update(f, res) EXCEPT !.log = lg]
             IN  IF g.iter < Stage2Iters THEN g
                 ELSE [g EXCEPT !.stage = "returned"]

\* how a call that ended in frame f ended
Outcome(f) ==
    IF f.stage = "thrown" THEN "thrown"
    ELSE IF f.bestRes # NoResult THEN "found" ELSE "notfound"

\* the encoded buffers (blob and object URL) created by the calls of f that
\* are still held: compressImage creates an object URL for every blob, and
\* neither it nor the search revokes one
LiveBuffers(f) == {i \in DOMAIN f.log : f.log[i].res # EncFail}

NoSearch == [stage |-> "none"]
Awaiting(f) == f.stage \in {"stage1", "stage2"}

---------------------------------------------------------------------------
(* The search alone: one call of iterativeCompressToTarget on an image,    *)
(* an analysis and a target drawn from bounded sets.                       *)

FullCrop == [x |-> 0, y |-> 0, width |-> 100, height |-> 100]
CentreCrop == [x |-> 25, y |-> 25, width |-> 50, height |-> 50]

LinProfiles == {[kind |-> "lin", base |-> 0, perQ |-> 100],
                [kind |-> "lin", base |-> 20000, perQ |-> 100]}
AnyProfile == [kind |-> "any", base |-> 0, perQ |-> 0]

Picture(w, h, prof) == [width |-> w, height |-> h, prof |-> prof]

SearchAnalyses ==
    {[suggestedFormat |-> "webp", smartCropSuggestion |-> c] : c \in {NoCrop, FullCrop, CentreCrop}}

LinTargets == {1024 * t : t \in 1..450}
AnyTargets == {1024, 51200, 102400}

SearchInit ==
    /\ appState = "IDLE"
    /\ imageList = <<>>
    /\ selectedId = NoId
    /\ processingProgress = [num |-> 0, den |-> 1]
    /\ batch = [pc |-> "none"]
    /\ finished = [id |-> NoId, outcome |-> "none", frame |-> [stage |-> "none"]]
    /\ pending = {}
    /\ previewTimer = NoTimer
    /\ events = 0
    /\ manualQuality = DefaultQuality
    /\ svg = NoSvg
    /\ \/ \E p \in LinProfiles, a \in SearchAnalyses, t \in LinTargets :
             search = SearchStart(Picture(900, 500, p), a, t)
       \/ \E d \in {<<900, 500>>, <<100, 50>>}, a \in SearchAnalyses, t \in AnyTargets :
             search = SearchStart(Picture(d[1], d[2], AnyProfile), a, t)

\* the awaited compressImage call completes
SearchEncoderDone ==
    /\ Awaiting(search)
    /\ \E res \in SearchOutcomes(search) : search' = SearchResume(search, res)
    /\ UNCHANGED <<manualQuality, svg, appState, imageList, selectedId, processingProgress, batch,
                   finished, pending, previewTimer, events>>

SearchNext == SearchEncoderDone

SpecSearch == SearchInit /\ [][SearchNext]_vars

---------------------------------------------------------------------------
(* The search run twice on the same image, analysis and target against a   *)
(* deterministic Encoder: an Encoder whose outcome (the bytes, or the       *)
(* rejection) is a function of the arguments of the call.  finished.frame  *)
(* keeps the frame the first run ended in.                                 *)

\* the arguments (quality, targetWidth, targetHeight) of the call of log
\* entry e of a search on picture img
CallArgs(img, e) ==
    [quality |-> e.quality,
     tw |-> IF e.stage = "stage1" THEN 0 ELSE Round(img.width * e.scale, ScaleUnit),
     th |-> IF e.stage = "stage1" THEN 0 ELSE Round(img.height * e.scale, ScaleUnit)]

AwaitedArgs(f) ==
    LET c == AwaitedCall(f)
    IN  [quality |-> c.quality, tw |-> c.tw, th |-> c.th]

\* the outcomes of the call f awaits that a deterministic Encoder can give
\* after it answered the calls of log seen
DeterministicOutcomes(f, seen) ==
    {res \in SearchOutcomes(f) :
        \A i \in DOMAIN seen :
            CallArgs(f.img, seen[i]) = AwaitedArgs(f) => seen[i].res = res}

\* a further call of iterativeCompressToTarget with the arguments of call
\* f, that kept its best attempt in a variable outside the function
Rerun_keepsBest(f) ==
    [SearchStart(f.img, f.analysis, f.target) EXCEPT !.bestRes = f.bestRes]

\* a further call of iterativeCompressToTarget with the arguments of call
\* f: all its state is local and initialised anew
Rerun(f) == SearchStart(f.img, f.analysis, f.target)

\* the calls the Encoder has answered so far, over both runs
Seen == (IF finished.outcome = "none" THEN <<>> ELSE finished.frame.log) \o search.log

\* the awaited compressImage call completes
RerunEncoderDone ==
    /\ Awaiting(search)
    /\ \E res \in DeterministicOutcomes(search, Seen) :
          search' = SearchResume(search, res)
    /\ UNCHANGED <<manualQuality, svg, appState, imageList, selectedId, processingProgress, batch,
                   finished, pending, previewTimer, events>>

\* the first run has ended: the search is called again
SearchAgain ==
    /\ ~Awaiting(search)
    /\ finished.outcome = "none"
    /\ finished' = [id |-> NoId, outcome |-> Outcome(search), frame |-> search]
    /\ search' = Rerun(search)
    /\ UNCHANGED <<manualQuality, svg, appState, imageList, selectedId, processingProgress, batch,
                   pending, previewTimer, events>>

RerunNext ==
    \/ RerunEncoderDone
    \/ SearchAgain

\* targets below, between and above the sizes the monotonic pictures
\* encode to
RerunTargets == {1024 * t : t \in {1, 5, 30, 50, 100, 250, 450}}

RerunInit ==
    /\ appState = "IDLE"
    /\ imageList = <<>>
    /\ selectedId = NoId
    /\ processingProgress = [num |-> 0, den |-> 1]
    /\ batch = [pc |-> "none"]
    /\ finished = [id |-> NoId, outcome |-> "none", frame |-> [stage |-> "none"]]
    /\ pending = {}
    /\ previewTimer = NoTimer
    /\ events = 0
    /\ manualQuality = DefaultQuality
    /\ svg = NoSvg
    /\ \/ \E p \in LinProfiles, a \in SearchAnalyses, t \in RerunTargets :
             search = SearchStart(Picture(900, 500, p), a, t)
       \/ \E d \in {<<900, 500>>, <<100, 50>>}, a \in SearchAnalyses :
             search = SearchStart(Picture(d[1], d[2], AnyProfile), a, TargetLimit)

SpecRerun == RerunInit /\ [][RerunNext]_vars

---------------------------------------------------------------------------
(* The application: the image queue and the handlers that write it *)

\* The pictures a user may upload: file size, pixel dimensions and how the
\* codec behaves on them.  At the 51200-byte target Photo is met in Stage 1,
\* Dense only in Stage 2 and Noise at no tested quality or scale.  The
\* queue of Spec takes Photo and Noise; Dense is searched in SpecItem.
Photo == [size |-> 300000, width |-> 900, height |-> 500,
          prof |-> [kind |-> "lin", base |-> 0, perQ |-> 100]]
Dense == [size |-> 2000000, width |-> 900, height |-> 500,
          prof |-> [kind |-> "lin", base |-> 20000, perQ |-> 100]]
Noise == [size |-> 9000000, width |-> 900, height |-> 500,
          prof |-> [kind |-> "lin", base |-> 400000, perQ |-> 100]]
Files == {Photo, Noise}

\* analyzeImage: what the remote model may answer, and the fallback of its
\* catch block
DefaultAnalysis == [suggestedFormat |-> "webp", smartCropSuggestion |-> FullCrop]
AnalyzerReplies == {[suggestedFormat |-> "jpeg", smartCropSuggestion |-> CentreCrop]}
AnalyzerThrows == [threw |-> TRUE]
analyzeImage == AnalyzerReplies \cup {DefaultAnalysis, AnalyzerThrows}

Ids(il) == {il[k].id : k \in DOMAIN il}
Item(il, id) == il[CHOOSE k \in DOMAIN il : il[k].id = id]

\* { ...img, ...updates }
Spread(img, updates) ==
    [fld \in DOMAIN img |-> IF fld \in DOMAIN updates THEN updates[fld] ELSE img[fld]]

\* an update that is applied to every item of the list
updateImageInList_all(il, id, updates) ==
    [k \in DOMAIN il |-> Spread(il[k], updates)]

\* setImageList(prev => prev.map(img => img.id === id ? {...img, ...updates} : img))
updateImageInList(il, id, updates) ==
    [k \in DOMAIN il |-> IF il[k].id = id THEN Spread(il[k], updates) ELSE il[k]]

\* the reduction taken relative to the size of the result
Reduction_ofResult(size, res) == [num |-> (size - res.size) * 100, den |-> res.size]

\* ((size - result.size) / size) * 100, kept as a fraction
Reduction(size, res) == [num |-> (size - res.size) * 100, den |-> size]

WithReduction(res, size) ==
    [size |-> res.size, quality |-> res.quality, width |-> res.width,
     height |-> res.height, reduction |-> Reduction(size, res)]

NewImage(id, file) ==
    [id |-> id, file |-> file, status |-> "idle",
     analysis |-> NoAnalysis, result |-> NoResult]

\* the img argument of compressImage, for an item of the queue
Pic(img) == Picture(img.file.width, img.file.height, img.file.prof)

---------------------------------------------------------------------------
(* triggerAnalysis and the effects that run when the selection changes *)

\* guard of triggerAnalysis, against the list of the render it runs in
CanAnalyse(il, id) ==
    /\ id \in Ids(il)
    /\ Item(il, id).analysis = NoAnalysis
    /\ Item(il, id).status # "analyzing"

\* the synchronous part of triggerAnalysis(id): the list and the calls in
\* flight afterwards
AnalysisStarted(il, pend, id) ==
    IF CanAnalyse(il, id)
    THEN [list |-> updateImageInList(il, id, [status |-> "analyzing"]),
          pending |-> pend \cup {[kind |-> "analysis", pc |-> "read", id |-> id]}]
    ELSE [list |-> il, pending |-> pend]

\* the live-preview effect: the cleanup clears the timer of the previous
\* run; a new one is set unless nothing is selected or a batch is running.
\* The timer's callback closes over the currentImage of this render.
PreviewTimerSet(il, id, state, q) ==
    IF id = NoId \/ id \notin Ids(il) \/ state = "PROCESSING" THEN NoTimer
    ELSE [id |-> id, status |-> Item(il, id).status, quality |-> q]

\* setSelectedId(id) followed by the two effects on selectedId, both run for
\* the render with the list il: the timer's closure holds the item as it is
\* before triggerAnalysis marks it analyzing
Selected(il, id) ==
    LET a == AnalysisStarted(il, pending, id)
    IN  /\ selectedId' = id
        /\ imageList' = a.list
        /\ pending' = a.pending
        /\ previewTimer' = PreviewTimerSet(il, id, appState, manualQuality)

\* a further user event; the id of an uploaded image is the number of the
\* event that uploaded it
UserEvent == events < MaxEvents /\ events' = events + 1

\* handleFileUpload with one image file
handleFileUpload ==
    /\ UserEvent
    /\ \E file \in Files :
          LET id == events + 1
              il == Append(imageList, NewImage(id, file))
          IN  IF selectedId = NoId
              THEN Selected(il, id)
              ELSE /\ imageList' = il
                   /\ UNCHANGED <<selectedId, pending, previewTimer>>
    /\ UNCHANGED <<manualQuality, svg, finished, appState, processingProgress, batch, search>>

\* click on an item of the queue
SelectImage ==
    /\ UserEvent
    /\ \E id \in Ids(imageList) :
          /\ id # selectedId
          /\ Selected(imageList, id)
    /\ UNCHANGED <<manualQuality, svg, finished, appState, processingProgress, batch, search>>

\* click on the remove button of an item
RemoveImage ==
    /\ UserEvent
    /\ \E id \in Ids(imageList) :
        /\ imageList' = SelectSeq(imageList, LAMBDA img : img.id # id)
        /\ IF selectedId = id
           THEN selectedId' = NoId /\ previewTimer' = NoTimer
           ELSE UNCHANGED <<selectedId, previewTimer>>
        /\ UNCHANGED <<manualQuality, svg, finished, appState, processingProgress, batch, search, pending>>

\* triggerAnalysis: fileToBase64 resolves, analyzeImage is called
AnalysisFileRead ==
    \E p \in pending :
        /\ p.kind = "analysis" /\ p.pc = "read"
        /\ pending' = (pending \ {p}) \cup {[p EXCEPT !.pc = "remote"]}
        /\ UNCHANGED <<manualQuality, svg, finished, appState, imageList, selectedId, processingProgress,
                       batch, search, previewTimer, events>>

\* triggerAnalysis: analyzeImage resolves
AnalysisDone ==
    \E p \in pending :
        /\ p.kind = "analysis" /\ p.pc = "remote"
        /\ \E a \in analyzeImage \ {AnalyzerThrows} :
              imageList' = updateImageInList(imageList, p.id,
                                [analysis |-> a, status |-> "idle"])
        /\ pending' = pending \ {p}
        /\ UNCHANGED <<manualQuality, svg, finished, appState, selectedId, processingProgress, batch, search,
                       previewTimer, events>>

\* triggerAnalysis: fileToBase64 or analyzeImage rejects (the catch block)
AnalysisFailed ==
    \E p \in pending :
        /\ p.kind = "analysis"
        /\ imageList' = updateImageInList(imageList, p.id, [status |-> "idle"])
        /\ pending' = pending \ {p}
        /\ UNCHANGED <<manualQuality, svg, finished, appState, selectedId, processingProgress, batch, search,
                       previewTimer, events>>

---------------------------------------------------------------------------
(* manualOptimize: the Manual Update button and the live preview *)

\* the synchronous part of manualOptimize(silent), run with the currentImage
\* cur and the quality setting of the closure: [id, status, quality]
ManualStarted(il, cur, silent) ==
    [list |-> IF silent THEN il
              ELSE updateImageInList(il, cur.id, [status |-> "optimizing"]),
     call |-> [kind |-> "manual", id |-> cur.id, status |-> cur.status,
               quality |-> cur.quality, silent |-> silent]]

\* click on Manual Update: the handler of the current render
manualOptimize ==
    /\ UserEvent
    /\ selectedId \in Ids(imageList)
    /\ LET cur == [id |-> selectedId, status |-> Item(imageList, selectedId).status,
                   quality |-> manualQuality]
           m == ManualStarted(imageList, cur, FALSE)
       IN  /\ imageList' = m.list
           /\ pending' = pending \cup {m.call}
    /\ UNCHANGED <<manualQuality, svg, finished, appState, selectedId, processingProgress, batch, search,
                   previewTimer>>

\* the debounce timer fires: manualOptimize(true) of the render that set it
LivePreview ==
    /\ previewTimer # NoTimer
    /\ LET m == ManualStarted(imageList, previewTimer, TRUE)
       IN  /\ imageList' = m.list
           /\ pending' = pending \cup {m.call}
    /\ previewTimer' = NoTimer
    /\ UNCHANGED <<manualQuality, svg, finished, appState, selectedId, processingProgress, batch, search,
                   events>>

\* the updates manualOptimize writes when its compressImage call resolves
ManualUpdates(p, file, res) ==
    [result |-> WithReduction(res, file.size),
     status |-> IF p.silent THEN p.status ELSE "completed"]

\* the compressImage call of manualOptimize on item img (scale 100, no
\* smart crop: targetWidth and targetHeight are the picture's dimensions)
ManualOutcomes(img, q) ==
    EncoderOutcomes(Pic(img), q, img.file.width, img.file.height, NoCrop)

\* manualOptimize: compressImage resolves
ManualDone ==
    \E p \in pending :
        /\ p.kind = "manual"
        /\ IF p.id \in Ids(imageList)
           THEN \E res \in ManualOutcomes(Item(imageList, p.id), p.quality) \ {EncFail} :
                   imageList' = updateImageInList(imageList, p.id,
                       ManualUpdates(p, Item(imageList, p.id).file, res))
           ELSE imageList' = imageList
        /\ pending' = pending \ {p}
        /\ UNCHANGED <<manualQuality, svg, finished, appState, selectedId, processingProgress, batch, search,
                       previewTimer, events>>

\* manualOptimize: compressImage rejects (the catch block)
ManualFailed ==
    \E p \in pending :
        /\ p.kind = "manual"
        /\ imageList' = IF p.silent THEN imageList
                        ELSE updateImageInList(imageList, p.id, [status |-> "error"])
        /\ pending' = pending \ {p}
        /\ UNCHANGED <<manualQuality, svg, finished, appState, selectedId, processingProgress, batch, search,
                       previewTimer, events>>

---------------------------------------------------------------------------
(* applyAutoToBatch.  batch.list is the imageList of the closure, batch.i   *)
(* the (1-based) position of the item in work, batch.pc the await the call *)
(* is suspended at: "read" (fileToBase64), "analyze" (analyzeImage) or     *)
(* "search" (a compressImage call of iterativeCompressToTarget).           *)

NoBatch == [pc |-> "none"]

\* what the loop reads of the imageList of its closure: of each item the
\* id, the file (size, preview) and the analysis
Closure(il) ==
    [k \in DOMAIN il |-> [id |-> il[k].id, file |-> il[k].file,
                          analysis |-> il[k].analysis]]
BatchItem == batch.list[batch.i]

\* the updates the batch driver writes for a search that returned result
BatchUpdates(img, analysis, result) ==
    IF result # NoResult
    THEN [analysis |-> analysis,
          result |-> WithReduction(result, img.file.size),
          status |-> "completed"]
    ELSE [status |-> "error"]

\* what the catch block of the loop writes
BatchCaught == [status |-> "error"]

\* a loop body that starts its calls without setting the status first
BatchEnter_noStatus(il, list, k) ==
    LET img == list[k]
    IN  /\ imageList' = il
        /\ IF img.analysis # NoAnalysis
           THEN /\ batch' = [pc |-> "search", list |-> list, i |-> k,
                             analysis |-> img.analysis]
                /\ search' = SearchStart(Pic(img), img.analysis, TargetLimit)
           ELSE /\ batch' = [pc |-> "read", list |-> list, i |-> k,
                             analysis |-> NoAnalysis]
                /\ search' = NoSearch

\* the loop body for item k up to its first await, on the list il
BatchEnter(il, list, k) ==
    LET img == list[k]
    IN  /\ imageList' = updateImageInList(il, img.id, [status |-> "optimizing"])
        /\ IF img.analysis # NoAnalysis
           THEN /\ batch' = [pc |-> "search", list |-> list, i |-> k,
                             analysis |-> img.analysis]
                /\ search' = SearchStart(Pic(img), img.analysis, TargetLimit)
           ELSE /\ batch' = [pc |-> "read", list |-> list, i |-> k,
                             analysis |-> NoAnalysis]
                /\ search' = NoSearch

\* how the loop body of the item in work ended: "found" and "notfound" for
\* a search that returned, "thrown" for the catch block; frame is the frame
\* the search ended in where the search is followed call by call (SpecItem)
Left(outcome, frame) == [id |-> BatchItem.id, outcome |-> outcome, frame |-> frame]
NothingLeft == [id |-> NoId, outcome |-> "none", frame |-> NoSearch]

\* a loop without the try/catch: a throw ends applyAutoToBatch
BatchAdvance_abortsOnThrow(il, left) ==
    /\ finished' = left
    /\ IF left.outcome = "thrown"
       THEN /\ imageList' = il
            /\ batch' = NoBatch
            /\ search' = NoSearch
            /\ UNCHANGED <<appState, processingProgress>>
       ELSE /\ processingProgress' = [num |-> batch.i * 100, den |-> Len(batch.list)]
            /\ IF batch.i < Len(batch.list)
               THEN /\ BatchEnter(il, batch.list, batch.i + 1)
                    /\ UNCHANGED appState
               ELSE /\ imageList' = il
                    /\ batch' = NoBatch
                    /\ search' = NoSearch
                    /\ appState' = "IDLE"

\* a loop that reports progress only for the items it completed
BatchAdvance_silentOnError(il, left) ==
    /\ finished' = left
    /\ processingProgress' = IF left.outcome = "found"
                             THEN [num |-> batch.i * 100, den |-> Len(batch.list)]
                             ELSE processingProgress
    /\ IF batch.i < Len(batch.list)
       THEN /\ BatchEnter(il, batch.list, batch.i + 1)
            /\ UNCHANGED appState
       ELSE /\ imageList' = il
            /\ batch' = NoBatch
            /\ search' = NoSearch
            /\ appState' = "IDLE"

\* a catch block that starts the item over
BatchAdvance_retriesOnThrow(il, left) ==
    /\ finished' = left
    /\ IF left.outcome = "thrown"
       THEN /\ BatchEnter(il, batch.list, batch.i)
            /\ UNCHANGED <<appState, processingProgress>>
       ELSE /\ processingProgress' = [num |-> batch.i * 100, den |-> Len(batch.list)]
            /\ IF batch.i < Len(batch.list)
               THEN /\ BatchEnter(il, batch.list, batch.i + 1)
                    /\ UNCHANGED appState
               ELSE /\ imageList' = il
                    /\ batch' = NoBatch
                    /\ search' = NoSearch
                    /\ appState' = "IDLE"

\* the end of the loop body for the item in work, whose last update gave
\* the list il: the progress report, then the next item or the end
BatchAdvance(il, left) ==
    /\ finished' = left
    /\ processingProgress' = [num |-> batch.i * 100, den |-> Len(batch.list)]
    /\ IF batch.i < Len(batch.list)
       THEN /\ BatchEnter(il, batch.list, batch.i + 1)
            /\ UNCHANGED appState
       ELSE /\ imageList' = il
            /\ batch' = NoBatch
            /\ search' = NoSearch
            /\ appState' = "IDLE"

\* the body of applyAutoToBatch up to its first await; on an empty list it
\* returns at once
BatchBegin ==
    IF Len(imageList) = 0
    THEN UNCHANGED <<appState, processingProgress, imageList, batch, search>>
    ELSE /\ appState' = "PROCESSING"
         /\ processingProgress' = [num |-> 0, den |-> 1]
         /\ BatchEnter(imageList, Closure(imageList), 1)

\* an Auto-Compress button that is not disabled while a batch runs
applyAutoToBatch_whileProcessing ==
    /\ UserEvent
    /\ BatchBegin
    /\ UNCHANGED <<manualQuality, svg, finished, selectedId, pending, previewTimer>>

\* click on Auto-Compress (the button is disabled while a batch runs)
applyAutoToBatch ==
    /\ UserEvent
    /\ appState = "IDLE"
    /\ batch = NoBatch
    /\ BatchBegin
    /\ UNCHANGED <<manualQuality, svg, finished, selectedId, pending, previewTimer>>

\* fileToBase64 of the batch resolves: analyzeImage is called
BatchFileRead ==
    /\ batch.pc = "read"
    /\ batch' = [batch EXCEPT !.pc = "analyze"]
    /\ UNCHANGED <<manualQuality, svg, finished, appState, imageList, selectedId, processingProgress,
                   search, pending, previewTimer, events>>

\* fileToBase64 of the batch rejects
BatchFileFailed ==
    /\ batch.pc = "read"
    /\ BatchAdvance(updateImageInList(imageList, BatchItem.id, BatchCaught),
                    Left("thrown", NoSearch))
    /\ UNCHANGED <<manualQuality, svg, selectedId, pending, previewTimer, events>>

\* analyzeImage of the batch resolves: the search starts
BatchAnalyzed ==
    /\ batch.pc = "analyze"
    /\ \E a \in analyzeImage \ {AnalyzerThrows} :
          /\ batch' = [batch EXCEPT !.pc = "search", !.analysis = a]
          /\ search' = SearchStart(Pic(BatchItem), a, TargetLimit)
    /\ UNCHANGED <<manualQuality, svg, finished, appState, imageList, selectedId, processingProgress,
                   pending, previewTimer, events>>

\* analyzeImage of the batch rejects
BatchAnalyzeFailed ==
    /\ batch.pc = "analyze"
    /\ BatchAdvance(updateImageInList(imageList, BatchItem.id, BatchCaught),
                    Left("thrown", NoSearch))
    /\ UNCHANGED <<manualQuality, svg, selectedId, pending, previewTimer, events>>

\* what the batch driver writes for the item when its search has ended in
\* frame f (returned or thrown)
SearchSettled(il, img, f) ==
    IF f.stage = "thrown"
    THEN updateImageInList(il, img.id, BatchCaught)
    ELSE updateImageInList(il, img.id, BatchUpdates(img, f.analysis, f.bestRes))

\* one compressImage call of the search of the batch completes
BatchEncoderDone ==
    /\ batch.pc = "search"
    /\ \E res \in SearchOutcomes(search) :
          LET f == SearchResume(search, res)
          IN  IF Awaiting(f)
              THEN /\ search' = f
                   /\ UNCHANGED <<appState, imageList, processingProgress, batch,
                                  finished>>
              ELSE BatchAdvance(SearchSettled(imageList, BatchItem, f),
                                Left(Outcome(f), f))
    /\ UNCHANGED <<manualQuality, svg, selectedId, pending, previewTimer, events>>

\* every frame the call with frame f can end in (returned or thrown), over
\* the outcomes of the compressImage calls it makes from f on
RECURSIVE SearchEnds(_)
SearchEnds(f) ==
    IF ~Awaiting(f) THEN {f}
    ELSE UNION {SearchEnds(g) : g \in {SearchResume(f, res) : res \in SearchOutcomes(f)}}

\* the compressImage calls of the search of the batch complete, from the
\* first to the one that ends the search: BatchEncoderDone repeated to the
\* end of the search.  Between these calls the batch writes no state, so a
\* handler that runs between two of them finds and leaves the state it
\* would have found and left before the first one.
BatchSearchDone ==
    /\ batch.pc = "search"
    /\ \E e \in {<<SearchSettled(imageList, BatchItem, f), Outcome(f)>> :
                    f \in SearchEnds(search)} :
          BatchAdvance(e[1], Left(e[2], NoSearch))
    /\ UNCHANGED <<manualQuality, svg, selectedId, pending, previewTimer, events>>

Init ==
    /\ appState = "IDLE"
    /\ imageList = <<>>
    /\ selectedId = NoId
    /\ processingProgress = [num |-> 0, den |-> 1]
    /\ batch = NoBatch
    /\ search = NoSearch
    /\ finished = NothingLeft
    /\ pending = {}
    /\ previewTimer = NoTimer
    /\ events = 0
    /\ manualQuality = DefaultQuality
    /\ svg = NoSvg

Next ==
    \/ handleFileUpload
    \/ SelectImage
    \/ RemoveImage
    \/ AnalysisFileRead
    \/ AnalysisDone
    \/ AnalysisFailed
    \/ manualOptimize
    \/ LivePreview
    \/ ManualDone
    \/ ManualFailed
    \/ applyAutoToBatch
    \/ BatchFileRead
    \/ BatchFileFailed
    \/ BatchAnalyzed
    \/ BatchAnalyzeFailed
    \/ BatchSearchDone

Spec == Init /\ [][Next]_vars

\* a step of the running applyAutoToBatch call: the call it awaits
\* (fileToBase64, analyzeImage, the compressImage calls of the search)
\* resolves or rejects
BatchStep ==
    \/ BatchFileRead
    \/ BatchFileFailed
    \/ BatchAnalyzed
    \/ BatchAnalyzeFailed
    \/ BatchSearchDone

\* the application when every call the batch awaits is eventually settled
SpecLive == Spec /\ WF_vars(BatchStep)

---------------------------------------------------------------------------
(* The application with the quality slider of the manual settings moved: a *)
(* change of quality re-runs the live-preview effect.                      *)

\* positions of the quality slider (1..100 in the page)
Qualities == {DefaultQuality, 50}

\* the quality slider is moved: setQuality(q), then the live-preview effect
\* (its cleanup clears the timer, a new timer is set for the new render)
setQuality ==
    /\ UserEvent
    /\ \E q \in Qualities \ {manualQuality} :
          /\ manualQuality' = q
          /\ previewTimer' = PreviewTimerSet(imageList, selectedId, appState, q)
    /\ UNCHANGED <<svg, finished, appState, imageList, selectedId, processingProgress,
                   batch, search, pending>>

SettingsNext ==
    \/ Next
    \/ setQuality

SpecSettings == Init /\ [][SettingsNext]_vars

\* a step that is not a user's: a timer that is set fires, or a call in
\* flight (fileToBase64, analyzeImage, compressImage) resolves or rejects
AsyncStep ==
    \/ AnalysisFileRead
    \/ AnalysisDone
    \/ AnalysisFailed
    \/ LivePreview
    \/ ManualDone
    \/ ManualFailed
    \/ BatchStep

\* the application when every timer fires and every call eventually settles
SpecSettling == SpecSettings /\ WF_vars(AsyncStep)

---------------------------------------------------------------------------
(* The application with uploads of two files at once (the file input is    *)
(* `multiple`): the queue then holds items that were never selected.       *)

\* handleFileUpload with two image files: both are appended by one
\* setImageList, the first is selected when nothing is
handleFilesUpload ==
    /\ UserEvent
    /\ \E file1 \in Files, file2 \in Files :
          LET id1 == events + 1
              id2 == events + 1 + MaxEvents
              il == imageList \o <<NewImage(id1, file1), NewImage(id2, file2)>>
          IN  IF selectedId = NoId
              THEN Selected(il, id1)
              ELSE /\ imageList' = il
                   /\ UNCHANGED <<selectedId, pending, previewTimer>>
    /\ UNCHANGED <<manualQuality, svg, finished, appState, processingProgress, batch,
                   search>>

QueueNext ==
    \/ Next
    \/ handleFilesUpload

SpecQueue == Init /\ [][QueueNext]_vars

---------------------------------------------------------------------------
(* The SVG cleaner (src/src/App.jsx): the input text, the options and the  *)
(* debounce effect that runs processSvg.  svg.timers holds the timers that *)
(* are set, each with the input and the options of the render that set it; *)
(* a timer that is set may fire at any later moment, and a change that     *)
(* arrives before it fires is one that arrived within the 300 ms.          *)
(* svg.runs counts the runs of processSvg since the last change and        *)
(* svg.burst the changes since the last run.                               *)

appVars == <<appState, imageList, selectedId, processingProgress, batch, search,
             finished, pending, previewTimer, events, manualQuality>>

SvgInputs == {"", "<svg>a</svg>", "<svg>b</svg>"}
SvgOptionNames == {"minify", "replaceFill"}

\* processSvg: what it stores for the content and the options of its closure
processSvg(content, options) ==
    IF content = "" THEN [source |-> "", options |-> {}]
    ELSE [source |-> content, options |-> options]

\* an effect that leaves the timer of the previous render running
EffectCleanup_keeps(timers) == timers

\* the cleanup of the debounce effect: clearTimeout(debounceTimer)
EffectCleanup(timers) == {}

\* the debounce effect after a render with this input and these options
DebounceEffect(input, options, timers) ==
    EffectCleanup(timers) \cup {[input |-> input, options |-> options]}

\* the page after it is mounted: the effect has run for the empty input
SvgMounted ==
    [inputSvg |-> "", options |-> {"minify"},
     timers |-> DebounceEffect("", {"minify"}, {}),
     outputSvg |-> processSvg("", {}),
     runs |-> 0, burst |-> 0, changes |-> 0]

\* a change re-renders the page and re-runs the effect
SvgChanged(input, options) ==
    /\ svg.changes < MaxSvgChanges
    /\ svg' = [svg EXCEPT !.inputSvg = input,
                          !.options = options,
                          !.timers = DebounceEffect(input, options, @),
                          !.runs = 0,
                          !.burst = IF svg.runs > 0 THEN 1 ELSE @ + 1,
                          !.changes = @ + 1]
    /\ UNCHANGED appVars

\* typing, pasting or dropping a file: setInputSvg with a new text
handleInputChange ==
    \E v \in SvgInputs \ {svg.inputSvg} : SvgChanged(v, svg.options)

\* a checkbox: setOptions with the option toggled (processSvg is re-created)
handleOptionChange ==
    \E o \in SvgOptionNames :
        SvgChanged(svg.inputSvg,
                   IF o \in svg.options THEN svg.options \ {o} ELSE svg.options \cup {o})

\* a timer fires: processSvg(inputSvg) of the render that set it
SvgTimerFires ==
    /\ \E t \in svg.timers :
          svg' = [svg EXCEPT !.timers = @ \ {t},
                             !.outputSvg = processSvg(t.input, t.options),
                             !.runs = @ + 1]
    /\ UNCHANGED appVars

SvgInit ==
    /\ appState = "IDLE"
    /\ imageList = <<>>
    /\ selectedId = NoId
    /\ processingProgress = [num |-> 0, den |-> 1]
    /\ batch = [pc |-> "none"]
    /\ search = [stage |-> "none"]
    /\ finished = [id |-> NoId, outcome |-> "none", frame |-> [stage |-> "none"]]
    /\ pending = {}
    /\ previewTimer = NoTimer
    /\ events = 0
    /\ manualQuality = DefaultQuality
    /\ svg = SvgMounted

SvgNext ==
    \/ handleInputChange
    \/ handleOptionChange
    \/ SvgTimerFires

SpecSvg == SvgInit /\ [][SvgNext]_vars

---------------------------------------------------------------------------
(* The batch driver on one item, followed call by call: the state after    *)
(* Auto-Compress was clicked on a queue of one image whose analysis is     *)
(* cached, for every picture of ItemFiles.                                 *)

AnyPicture(w, h) == [size |-> 300000, width |-> w, height |-> h, prof |-> AnyProfile]
\* a picture whose file is already smaller than the target
Small == [size |-> 10000, width |-> 900, height |-> 500,
          prof |-> [kind |-> "lin", base |-> 0, perQ |-> 100]]
ItemFiles == {Photo, Dense, Noise, Small, AnyPicture(900, 500), AnyPicture(100, 50)}
ItemAnalyses == AnalyzerReplies \cup {DefaultAnalysis}

ItemInit ==
    \E file \in ItemFiles, a \in ItemAnalyses :
        LET img == [NewImage(1, file) EXCEPT !.analysis = a]
        IN  /\ appState = "PROCESSING"
            /\ imageList = <<[img EXCEPT !.status = "optimizing"]>>
            /\ selectedId = 1
            /\ processingProgress = [num |-> 0, den |-> 1]
            /\ batch = [pc |-> "search", list |-> Closure(<<img>>), i |-> 1,
                        analysis |-> a]
            /\ search = SearchStart(Pic(img), a, TargetLimit)
            /\ finished = NothingLeft
            /\ pending = {}
            /\ previewTimer = NoTimer
            /\ events = 2
            /\ manualQuality = DefaultQuality
            /\ svg = NoSvg

ItemNext == BatchEncoderDone

SpecItem == ItemInit /\ [][ItemNext]_vars

---------------------------------------------------------------------------
(* Properties of the search (SpecSearch) *)

IsStage(f, st) == {i \in DOMAIN f.log : f.log[i].stage = st}
Completed(f, st) == {i \in IsStage(f, st) : f.log[i].res # EncFail}
Fitting(f, st) == {i \in Completed(f, st) : f.log[i].res.size <= f.target}

\* Encoder calls issued so far in a stage: the completed ones and the awaited one
Calls(f, st) == Cardinality(IsStage(f, st)) + (IF f.stage = st THEN 1 ELSE 0)

\* size of the picture at quality q, native scale
NativeSize(f, q) ==
    CHOOSE sz \in EncodedSizes(f.img.prof, q, SourceW(f.img, Crop(f.analysis)),
                               SourceH(f.img, Crop(f.analysis))) : TRUE

FittingQualities(f) == {q \in LowQ0..HighQ0 : NativeSize(f, q) <= f.target}

\* C1: a non-null result of iterativeCompressToTarget is one of the attempts
\* the search made and its size is at most the target.
C1_ResultIsAttemptWithinTarget ==
    (search.stage = "returned" /\ search.bestRes # NoResult) =>
        /\ \E i \in DOMAIN search.log : search.log[i].res = search.bestRes
        /\ search.bestRes.size <= search.target

C1_Witness ==
    /\ search.stage = "returned"
    /\ search.img.prof.kind = "any"
    /\ search.bestRes # NoResult
    /\ \E i \in Completed(search, "stage1") : search.log[i].res.size > search.target

\* C2: with a monotonic Encoder, when some quality in 5..90 fits the target
\* at native scale, the search returns the highest such quality (90 when the
\* target is at least size(90), a quality in [5, 50) when
\* size(5) <= target < size(50)) and makes no Stage 2 call.
C2_MonotonicFindsHighestQuality ==
    (/\ search.stage = "returned"
     /\ search.img.prof.kind = "lin"
     /\ FittingQualities(search) # {}) =>
        /\ search.bestRes # NoResult
        /\ search.bestRes.quality = Max(FittingQualities(search))
        /\ Calls(search, "stage2") = 0
        /\ search.target >= NativeSize(search, 90) => search.bestRes.quality = 90
        /\ (NativeSize(search, 5) <= search.target /\ search.target < NativeSize(search, 50))
              => (5 <= search.bestRes.quality /\ search.bestRes.quality < 50)

C2_Witness ==
    /\ search.stage = "returned"
    /\ search.img.prof.kind = "lin"
    /\ NativeSize(search, 5) <= search.target
    /\ search.target < NativeSize(search, 50)
    /\ search.bestRes # NoResult
    /\ search.bestRes.quality = 37

\* C4 (state part): at most 7 Encoder calls in Stage 1, at most 8 in Stage 2,
\* at most 15 in all; a search that returns made 8 Stage 2 calls or none.
C4_CallBounds ==
    /\ Calls(search, "stage1") <= 7
    /\ Calls(search, "stage2") <= 8
    /\ Calls(search, "stage1") + Calls(search, "stage2") <= 15
    /\ search.stage = "returned" => Calls(search, "stage2") \in {0, 8}
    /\ search.stage = "stage2" => Calls(search, "stage2") = search.iter + 1

\* C4 (step part): every Stage 1 iteration strictly shrinks highQ - lowQ.
C4_IntervalShrinks ==
    (search.stage = "stage1" /\ search'.log # search.log /\ search'.stage # "thrown")
        => (search'.highQ - search'.lowQ < search.highQ - search.lowQ)

\* C4: one search makes at most 7 Stage 1 calls, exactly 8 Stage 2 calls when
\* Stage 2 is entered and none otherwise, at most 15 calls in all, and the
\* Stage 1 interval highQ - lowQ strictly decreases on every iteration.
C4_CallBudget == []C4_CallBounds /\ [][C4_IntervalShrinks]_vars

C4_Witness ==
    /\ search.stage = "returned"
    /\ Calls(search, "stage1") = 7
    /\ Calls(search, "stage2") = 0

C4_WitnessStage2 ==
    /\ search.stage = "returned"
    /\ Calls(search, "stage1") + Calls(search, "stage2") = 14

\* C5: Stage 2 issues Encoder calls exactly when Stage 1 ended with no
\* attempt within the target, and then quality 5 was tested in Stage 1 and
\* was too large.
C5_Stage2OnlyAfterEmptyStage1 ==
    /\ Calls(search, "stage2") > 0 =>
          /\ Fitting(search, "stage1") = {}
          /\ \E i \in Completed(search, "stage1") :
                /\ search.log[i].quality = LowQ0
                /\ search.log[i].res.size > search.target
    /\ (search.stage \in {"stage2", "returned"} /\ Fitting(search, "stage1") = {})
          => Calls(search, "stage2") > 0

C5_Witness ==
    /\ search.stage = "returned"
    /\ Calls(search, "stage2") = Stage2Iters
    /\ search.bestRes # NoResult

\* C6: when Stage 2 was entered, the result is the attempt at the largest
\* tested scale whose size is within the target, and null when no tested
\* scale is within the target.
C6_Stage2LargestFittingScale ==
    (search.stage = "returned" /\ Calls(search, "stage2") > 0) =>
        LET fit == Fitting(search, "stage2")
        IN  IF fit = {} THEN search.bestRes = NoResult
            ELSE \E i \in fit :
                    /\ search.log[i].scale = Max({search.log[j].scale : j \in fit})
                    /\ search.bestRes = search.log[i].res

C6_Witness ==
    /\ search.stage = "returned"
    /\ Cardinality(Fitting(search, "stage2")) >= 2
    /\ \E i \in Completed(search, "stage2") :
          /\ search.log[i].res.size > search.target
          /\ \E j \in Fitting(search, "stage2") : j > i

C6_WitnessNone ==
    /\ search.stage = "returned"
    /\ Calls(search, "stage2") = Stage2Iters
    /\ search.bestRes = NoResult

---------------------------------------------------------------------------
(* Properties of the batch driver on one item (SpecItem) *)

TheItem == Item(imageList, 1)

\* C3: when every attempt of a search that returned was larger than the
\* target, the search returned null and the batch driver marked the item
\* error.
C3_NotFoundWhenAllTooLarge ==
    (/\ finished.outcome # "none"
     /\ finished.frame.stage = "returned"
     /\ \A i \in DOMAIN finished.frame.log :
           finished.frame.log[i].res.size > finished.frame.target) =>
        /\ finished.frame.bestRes = NoResult
        /\ finished.outcome = "notfound"
        /\ TheItem.status = "error"
        /\ TheItem.result = NoResult

C3_Witness ==
    /\ finished.outcome = "notfound"
    /\ Len(finished.frame.log) = 14
    /\ \A i \in DOMAIN finished.frame.log :
          finished.frame.log[i].res.size > finished.frame.target
    /\ TheItem.status = "error"

\* C10: a compressImage call is awaited only while no earlier call of the
\* search has failed; a search in which a call failed ended with that call,
\* returned no attempt, and the batch driver marked the item error.
C10_EncoderFailureAbortsSearch ==
    /\ Awaiting(search) => \A i \in DOMAIN search.log : search.log[i].res # EncFail
    /\ finished.outcome = "thrown" =>
          LET f == finished.frame
          IN  /\ f.stage = "thrown"
              /\ f.log[Len(f.log)].res = EncFail
              /\ \A i \in 1..(Len(f.log) - 1) : f.log[i].res # EncFail
              /\ ~Awaiting(search)
              /\ TheItem.status = "error"
              /\ TheItem.result = NoResult
    /\ finished.outcome \in {"found", "notfound"} =>
          \A i \in DOMAIN finished.frame.log : finished.frame.log[i].res # EncFail

C10_Witness ==
    /\ finished.outcome = "thrown"
    /\ Len(finished.frame.log) >= 3
    /\ \E i \in DOMAIN finished.frame.log :
          /\ finished.frame.log[i].res # EncFail
          /\ finished.frame.log[i].res.size <= finished.frame.target
    /\ TheItem.status = "error"

---------------------------------------------------------------------------
(* Properties of the application (Spec) *)

BatchRuns == batch.pc # "none"
\* the step in which the batch leaves the item in work
BatchLeaves == BatchRuns /\ (batch'.pc = "none" \/ batch'.i # batch.i)
\* the step in which applyAutoToBatch finishes
BatchEnds == BatchRuns /\ batch'.pc = "none"

\* the items of the list the batch started on that are still in the list
\* after the step
BatchIdsLeft == {batch.list[k].id : k \in DOMAIN batch.list} \cap Ids(imageList')

C7_Step ==
    BatchEnds =>
        \A id \in BatchIdsLeft : Item(imageList', id).status \in {"completed", "error"}

\* C7: when applyAutoToBatch finishes, every item of the list it started on
\* has status completed or error.
C7_AllSettledAtBatchEnd == [][C7_Step]_vars

C8_Step ==
    BatchEnds =>
        \A id \in BatchIdsLeft :
            /\ Item(imageList', id).status = "completed" => Item(imageList', id).result # NoResult
            /\ Item(imageList', id).status = "error" => Item(imageList', id).result = NoResult

\* C8: when applyAutoToBatch finishes, every completed item has a result
\* attached and every item in error has none.
C8_ResultIffCompletedAtBatchEnd == [][C8_Step]_vars

C9_Step ==
    BatchRuns =>
        /\ batch'.pc # "none" =>
              /\ batch'.list = batch.list
              /\ batch'.i \in {batch.i, batch.i + 1}
        /\ batch'.pc = "none" => batch.i = Len(batch.list)
        /\ BatchLeaves =>
              /\ finished'.id = BatchItem.id
              /\ finished'.outcome \in {"found", "notfound", "thrown"}
              /\ processingProgress' = [num |-> batch.i * 100, den |-> Len(batch.list)]
              /\ BatchItem.id \in Ids(imageList') =>
                    Item(imageList', BatchItem.id).status =
                        (IF finished'.outcome = "found" THEN "completed" ELSE "error")

\* C9: the batch leaves an item whose Encoder call (or file read, or
\* analysis) threw with status error, goes on to the next item whatever the
\* outcome (found, notfound, thrown) of the item it leaves, skips no item
\* and finishes only after the last one.
C9_BatchContinuesAfterFailure == [][C9_Step]_vars

C9_Witness ==
    /\ BatchRuns
    /\ batch.i = 2
    /\ batch.pc = "search"
    /\ finished.id = batch.list[1].id
    /\ finished.outcome = "thrown"
    /\ finished.id \in Ids(imageList)
    /\ Item(imageList, finished.id).status = "error"

\* the step in which applyAutoToBatch starts
BatchStarts == ~BatchRuns /\ batch'.pc # "none"

C11_Step ==
    (BatchRuns /\ batch.pc \in {"read", "analyze"} /\ batch' # batch) =>
        /\ batch'.pc \in {"analyze", "search"}
        /\ batch'.i = batch.i
        /\ batch'.list = batch.list
        /\ BatchItem.id \in Ids(imageList') =>
              Item(imageList', BatchItem.id).status # "error"

\* C11: for an item with no cached analysis every failure while the
\* analysis is obtained is absorbed: the batch goes from reading the file
\* to the Analyzer call and from the Analyzer call to the search of the same
\* item, and does not set the item to error on the way.
C11_AnalysisFailureAbsorbed == [][C11_Step]_vars

C12_Step ==
    /\ BatchStarts => /\ batch'.i = 1
                      /\ processingProgress' = [num |-> 0, den |-> 1]
    /\ BatchRuns =>
          /\ BatchLeaves <=> processingProgress' # processingProgress
          /\ BatchLeaves =>
                /\ processingProgress' = [num |-> batch.i * 100, den |-> Len(batch.list)]
                /\ processingProgress'.num * processingProgress.den
                      > processingProgress.num * processingProgress'.den
                /\ batch'.pc # "none" => batch'.i = batch.i + 1 /\ batch'.list = batch.list
                /\ batch'.pc = "none" => batch.i = Len(batch.list)
          /\ ~BatchLeaves => batch'.i = batch.i /\ batch'.list = batch.list

\* C12: a run of applyAutoToBatch over N items reports progress exactly once
\* for each item, when it leaves the item and whatever the item's outcome;
\* the k-th report is k * 100 / N, so the reports increase strictly from
\* 100 / N to 100, and progress changes at no other step of the run.
C12_ProgressReports == [][C12_Step]_vars

C12_Witness ==
    /\ ~BatchRuns
    /\ appState = "IDLE"
    /\ processingProgress = [num |-> 200, den |-> 2]
    /\ finished.outcome = "thrown"

\* the compressImage calls in flight: the one the search of the batch
\* awaits and those of manualOptimize
EncoderCallsInFlight ==
    (IF batch.pc = "search" THEN 1 ELSE 0)
        + Cardinality({p \in pending : p.kind = "manual"})

\* C13: while a batch is running at most one compressImage call is in
\* flight, and none of them is a call of manualOptimize (Manual Update
\* button or live preview).
C13_OneEncoderCallInFlight ==
    BatchRuns =>
        /\ EncoderCallsInFlight <= 1
        /\ \A p \in pending : p.kind # "manual"

\* what the batch driver may find written on an item: status, analysis, result
Written(img) == [status |-> img.status, analysis |-> img.analysis, result |-> img.result]

C14_Step ==
    (BatchRuns /\ batch' = batch) =>
        \A k \in DOMAIN batch.list :
            batch.list[k].id \in Ids(imageList) =>
                /\ batch.list[k].id \in Ids(imageList')
                /\ Written(Item(imageList', batch.list[k].id))
                      = Written(Item(imageList, batch.list[k].id))

\* C14: while a batch is running, a step that is not a step of the batch
\* driver leaves the status, the analysis and the result of every item of
\* the batch as they were and removes none of them from the list.
C14_OnlyBatchWritesItems == [][C14_Step]_vars

\* applyAutoToBatch has finished: progress is 100 and appState is IDLE
BatchDone ==
    /\ ~BatchRuns
    /\ appState = "IDLE"
    /\ processingProgress.num = 100 * processingProgress.den
    /\ finished.outcome # "none"

\* C15: a batch that has started eventually finishes (progress 100,
\* appState IDLE), and on the way it reaches every position of the list it
\* started on, whatever the outcomes of the items.
C15_BatchFinishes ==
    /\ BatchRuns ~> BatchDone
    /\ \A k \in 1..MaxEvents :
          (BatchRuns /\ batch.i = k /\ k < Len(batch.list))
              ~> (BatchRuns /\ batch.i = k + 1)

C15_Witness ==
    /\ BatchDone
    /\ Len(imageList) = 2
    /\ \A k \in DOMAIN imageList : imageList[k].status = "error"
    /\ finished.id = imageList[2].id

---------------------------------------------------------------------------
(* Properties of the search run twice (SpecRerun) *)

---------------------------------------------------------------------------
(* Further properties of the search, the item and the batch *)

\* C17: when the search returns, every encoded buffer its calls created
\* has been released except the retained best: at most one is still held,
\* and none when the search returns null.
C17_BuffersReleased ==
    search.stage = "returned" =>
        Cardinality(LiveBuffers(search)) <= (IF search.bestRes = NoResult THEN 0 ELSE 1)

\* the batch driver has calls in flight only for the item in work
C18_CallsForItemInWork ==
    /\ batch.pc \in {"none", "read", "analyze", "search"}
    /\ batch.pc = "search" =>
          /\ Awaiting(search)
          /\ search.img = Pic(BatchItem)
    /\ batch.pc # "search" => ~Awaiting(search)
    /\ BatchRuns => batch.i \in DOMAIN batch.list

C18_Step ==
    /\ BatchStarts => batch'.i = 1
    /\ (BatchRuns /\ batch'.pc # "none") => batch'.i \in {batch.i, batch.i + 1}
    /\ (BatchStarts \/ (BatchLeaves /\ batch'.pc # "none")) =>
          /\ batch'.pc \in {"read", "search"}
          /\ batch'.list[batch'.i].id \in Ids(imageList') =>
                Item(imageList', batch'.list[batch'.i].id).status = "optimizing"
    /\ (BatchLeaves /\ BatchItem.id \in Ids(imageList')) =>
          Item(imageList', BatchItem.id).status \in {"completed", "error"}

\* C18: applyAutoToBatch takes the items in list order, one at a time: the
\* step that turns to an item sets its status to optimizing and only then
\* issues the first call for it, the calls in flight are those of the item
\* in work, and the step that turns to item k + 1 is the step that set
\* item k to completed or error.
C18_SequentialInListOrder == []C18_CallsForItemInWork /\ [][C18_Step]_vars

C18_Witness ==
    /\ BatchRuns
    /\ batch.i = 2
    /\ batch.pc = "search"
    /\ Ids(imageList) = {1, 2}
    /\ Item(imageList, batch.list[1].id).status = "completed"
    /\ Item(imageList, batch.list[2].id).status = "optimizing"

\* C19: when the search returned an attempt, the batch driver set the item
\* to completed and stored that attempt (same size, quality, dimensions)
\* with the reduction (originalSize - resultSize) * 100 / originalSize,
\* originalSize being the size of the uploaded file.
C19_FoundIsStoredWithReduction ==
    finished.outcome = "found" =>
        LET best == finished.frame.bestRes
            stored == TheItem.result
        IN  /\ TheItem.status = "completed"
            /\ stored # NoResult
            /\ stored.size = best.size
            /\ stored.quality = best.quality
            /\ stored.width = best.width
            /\ stored.height = best.height
            /\ stored.reduction.den = TheItem.file.size
            /\ stored.reduction.num = (TheItem.file.size - best.size) * 100

C19_Witness ==
    /\ finished.outcome = "found"
    /\ TheItem.status = "completed"
    /\ TheItem.file = Dense
    /\ TheItem.result.quality = Stage2Quality
    /\ TheItem.result.width < TheItem.file.width

\* C20: for any size function the Stage 1 attempts within the target have
\* strictly increasing qualities in the order tested, and from the first of
\* them on the best attempt kept is the last, highest-quality one of them:
\* no attempt that is too large replaces or clears it, and it is what the
\* search returns.
C20_Stage1KeepsBestSeen ==
    LET fit == Fitting(search, "stage1")
    IN  /\ \A i, j \in fit : i < j => search.log[i].quality < search.log[j].quality
        /\ fit # {} =>
              /\ search.stage \in {"stage1", "returned", "thrown"}
              /\ search.bestRes = search.log[Max(fit)].res
              /\ search.bestRes.quality = Max({search.log[i].quality : i \in fit})

C20_Witness ==
    /\ search.stage = "returned"
    /\ search.img.prof.kind = "any"
    /\ Cardinality(Fitting(search, "stage1")) >= 2
    /\ \E i \in Completed(search, "stage1") :
          /\ search.log[i].res.size > search.target
          /\ i > Max(Fitting(search, "stage1"))

---------------------------------------------------------------------------
(* Properties of the application with uploads of several files (SpecQueue) *)

\* the step in which the batch turns to an item (the first or a later one)
BatchTurns == BatchStarts \/ (BatchLeaves /\ batch'.pc # "none")

C21_Step ==
    BatchTurns =>
        LET id == batch'.list[batch'.i].id
        IN  (id \in Ids(imageList) /\ Item(imageList, id).analysis # NoAnalysis) =>
                /\ batch'.pc = "search"
                /\ batch'.analysis = Item(imageList, id).analysis

\* C21: when the batch turns to an item that has an analysis stored on it,
\* it calls no Analyzer for the item and searches it with the stored
\* analysis.
C21_CachedAnalysisIsUsed == [][C21_Step]_vars

---------------------------------------------------------------------------
(* Further properties of the application (Spec) *)

C22_Step ==
    batch' # batch =>
        LET left == IF BatchRuns THEN {BatchItem.id} ELSE {}
            turned == IF BatchTurns THEN {batch'.list[batch'.i].id} ELSE {}
        IN  /\ Len(imageList') = Len(imageList)
            /\ \A p \in DOMAIN imageList :
                  /\ imageList'[p].id = imageList[p].id
                  /\ imageList[p].id \notin (left \cup turned) =>
                        imageList'[p] = imageList[p]
                  /\ imageList[p].id \in (turned \ left) =>
                        imageList'[p] = [imageList[p] EXCEPT !.status = "optimizing"]

\* C22: every update the batch makes for the item in work, whether the item
\* ends completed or error, changes that item only: the other items keep
\* their status, analysis and result (but for the status optimizing that the
\* same step sets on the next item when it turns to it), and the list keeps
\* its order and length.
C22_BatchUpdatesOneItem == [][C22_Step]_vars

C22_Witness ==
    /\ ~BatchRuns
    /\ finished.outcome = "found"
    /\ Len(imageList) = 2
    /\ imageList[1].status = "error"
    /\ imageList[1].result = NoResult
    /\ imageList[2].status = "completed"

---------------------------------------------------------------------------
(* Properties of the application with the quality slider (SpecSettings) *)

\* the silent manualOptimize calls that complete in the step
SilentDone == {p \in pending \ pending' : p.kind = "manual" /\ p.silent}

C23_Step ==
    \A p \in SilentDone :
        (/\ p.id \in Ids(imageList)
         /\ p.id = selectedId
         /\ Item(imageList, p.id).result # NoResult
         /\ Item(imageList, p.id).result.quality = manualQuality) =>
            Item(imageList', p.id).result.quality = manualQuality

\* C23: a silent live-preview compression that completes never replaces a
\* result computed from the current settings by one computed from earlier
\* settings: after its write the result stored on the selected item is
\* still one of the current quality.
C23_StalePreviewDiscarded == [][C23_Step]_vars

\* the items the batch has marked completed that it can still name when it
\* finishes: the item it handled last and the one it handled before it
BatchMarkedCompleted ==
    {l.id : l \in {m \in {finished, finished'} :
                     /\ m.outcome = "found"
                     /\ \E k \in DOMAIN batch.list : batch.list[k].id = m.id}}

C25_Step ==
    BatchEnds =>
        \A id \in BatchMarkedCompleted \cap Ids(imageList') :
            /\ Item(imageList', id).result # NoResult
            /\ Item(imageList', id).result.size <= TargetLimit

\* C25: at the moment a batch finishes, every item the batch marked
\* completed holds a result of at most 51200 bytes, whatever silent
\* live-preview compressions were pending or in flight during the batch.
C25_CompletedWithinTargetAtBatchEnd == [][C25_Step]_vars

\* C26: for an item the batch marks completed the stored result is no
\* larger than the original file, so the stored reduction lies in [0, 100],
\* for every original size including sizes below the target.
C26_ReductionWithinPercentRange ==
    (finished.outcome = "found" /\ TheItem.status = "completed") =>
        /\ TheItem.result.size <= TheItem.file.size
        /\ TheItem.result.reduction.num >= 0
        /\ TheItem.result.reduction.num <= 100 * TheItem.result.reduction.den

\* the frames of the search on the item: the one in work and the one left
SearchFrames == {f \in {search, finished.frame} : f.stage # "none"}

C28_Step ==
    /\ BatchStarts =>
          /\ appState = "IDLE"
          /\ appState' = "PROCESSING"
          /\ Len(imageList) > 0
          /\ batch'.i = 1
          /\ Len(batch'.list) = Len(imageList)
    /\ (BatchRuns /\ ~BatchEnds) =>
          /\ batch'.list = batch.list
          /\ batch'.i \in {batch.i, batch.i + 1}
    /\ BatchEnds =>
          /\ batch.i = Len(batch.list)
          /\ appState' = "IDLE"
    /\ (events' # events /\ Len(imageList) = 0) =>
          /\ appState' = appState
          /\ processingProgress' = processingProgress
          /\ batch' = batch

\* C28: at most one batch runs at a time: a batch starts only while appState
\* is IDLE and on a non-empty list, appState is PROCESSING exactly while the
\* batch runs, the running batch goes through its own list item by item
\* until the last one is handled, and on an empty list nothing changes
\* appState or the progress.
C28_OneBatchAtATime ==
    /\ [](appState \in {"IDLE", "PROCESSING"})
    /\ [](appState = "PROCESSING" <=> BatchRuns)
    /\ [][C28_Step]_vars

\* a second batch in work on the item the first batch finished
C28_Witness ==
    /\ appState = "PROCESSING"
    /\ BatchRuns
    /\ Len(batch.list) = 1
    /\ finished.id = batch.list[1].id
    /\ finished.outcome # "none"

C29_Step ==
    \A p \in SilentDone :
        p.id \in Ids(imageList) =>
            Item(imageList', p.id).status = Item(imageList, p.id).status

Analyzing(id) == id \in Ids(imageList) /\ Item(imageList, id).status = "analyzing"

\* the triggerAnalysis calls started in the step
AnalysisCallsStarted == {p \in pending' \ pending : p.kind = "analysis" /\ p.pc = "read"}

C30_Step ==
    \A p \in AnalysisCallsStarted :
        p.id \in Ids(imageList) =>
            /\ Item(imageList, p.id).analysis = NoAnalysis
            /\ Item(imageList, p.id).status # "analyzing"

\* C30: no item stays in status analyzing forever: when every call
\* eventually resolves or rejects, an item that is analyzing eventually has
\* another status (or is removed); and triggerAnalysis starts no call for
\* an item that has an analysis or is analyzing.
C30_AnalyzingEnds ==
    /\ \A id \in 1..MaxEvents : Analyzing(id) ~> ~Analyzing(id)
    /\ [][C30_Step]_vars

---------------------------------------------------------------------------
(* Properties of the SVG cleaner (SpecSvg) *)

\* C24: processing is debounced: at most one run of processSvg is pending,
\* it is the run for the last input and the last options (every change
\* cancels the run pending before it), and after a burst of changes
\* processSvg has run exactly once, on the last input of the burst.
C24_DebouncedProcessing ==
    /\ Cardinality(svg.timers) <= 1
    /\ \A t \in svg.timers : t.input = svg.inputSvg /\ t.options = svg.options
    /\ svg.runs <= 1
    /\ (svg.timers = {}) <=> (svg.runs = 1)
    /\ svg.runs = 1 => svg.outputSvg = processSvg(svg.inputSvg, svg.options)

C24_Witness ==
    /\ svg.burst = 3
    /\ svg.runs = 1
    /\ svg.timers = {}
    /\ svg.inputSvg # ""
    /\ svg.outputSvg.source = svg.inputSvg

===========================================================================
